---------------------------- MODULE Spec2Model ----------------------------
(***************************************************************************)
(* Model of src/app.py: chunk_text (the boundary-aware chunker) and        *)
(* summarize_text (the sequential per-chunk summarization driver), chained *)
(* as the processing section of the script chains them.                    *)
(*                                                                         *)
(* Offsets start, end are the 0-based Python offsets.  A text is a         *)
(* sequence of one-character strings, so the Python character text[k] is   *)
(* text[k+1] here and the slice text[a:b] is SubSeq(text, a+1, b).         *)
(***************************************************************************)
EXTENDS Integers, Sequences, FiniteSets, TLC

\* ------------------------------------------------------------------ bounds
MaxLen == 5          \* longest text given to chunk_text
MaxChunkSize == 3    \* chunk_size ranges over 1..MaxChunkSize
MaxOverlap == 3      \* overlap ranges over 0..MaxOverlap
MaxSumLen == 3       \* longest text of a run that goes on to summarize_text

\* A letter, a digit and a blank: two alphanumeric characters, one boundary.
Alphabet == {"a", "1", " "}

\* What model.generate_content(prompt).text may evaluate to.
Responses == {"summary A", "summary B"}

VARIABLES
    text,        \* chunk_text: parameter text
    chunk_size,  \* chunk_text: parameter chunk_size
    overlap,     \* chunk_text: parameter overlap
    start,       \* chunk_text: local start
    end,         \* chunk_text: local end
    chunks,      \* chunk_text: local chunks, then text_chunks of the caller
    starts,      \* history: value of start at each chunks.append
    ends,        \* history: value of end at each chunks.append
    i,           \* summarize_text: loop index
    summaries,   \* summarize_text: local summaries
    status,      \* summarize_text: what status_text shows
    progress,    \* history: arguments of progress_bar.progress, in call order
    calls,       \* history: calls of model.generate_content, in call order
    returned,    \* history: outcome of each of those calls
    pc           \* position in the script

vars == <<text, chunk_size, overlap, start, end, chunks, starts, ends,
          i, summaries, status, progress, calls, returned, pc>>

chunkVars == <<text, chunk_size, overlap, start, end, chunks, starts, ends>>
sumVars == <<i, summaries, status, progress, calls, returned>>

\* ----------------------------------------------------------------- helpers
Texts(n) == UNION {[1..k -> Alphabet] : k \in 0..n}

\* str.isalnum() on one character
IsAlnum(c) == c \in {"a", "1"}

\* len(text)
TextLen(t) == Len(t)

\* text[k] for a 0-based k; a negative k counts from the end of the string
CharAt(t, k) == IF k < 0 THEN t[TextLen(t) + k + 1] ELSE t[k + 1]

\* text[a:b]
SliceOff(t, a, b) == SubSeq(t, a + 1, b - 1)
Slice(t, a, b) == SubSeq(t, a + 1, b)

\* while start < len(text)
LoopCond(s, t) == s < TextLen(t)

\* end = start + chunk_size; if end > len(text): end = len(text)
ClampEnd(s, cs, t) == IF s + cs > TextLen(t) THEN TextLen(t) ELSE s + cs

\* while end > start and text[end-1].isalnum()
BackCondAhead(e, s, t) == e > s /\ IsAlnum(CharAt(t, e))
BackCond(e, s, t) == e > s /\ IsAlnum(CharAt(t, e - 1))

\* end -= 1
BackStepStuck(e) == e
BackStep(e) == e - 1

\* end = start + chunk_size   (after the backward walk collapsed)
ResetEndForgot(s, cs) == s
ResetEnd(s, cs) == s + cs

\* while end < len(text) and text[end-1].isalnum()
FwdCondToEnd(e, t) == e < TextLen(t)
FwdCond(e, t) == e < TextLen(t) /\ IsAlnum(CharAt(t, e - 1))

\* start = end - overlap if end - overlap > start else end
NextStartUnguarded(e, ov, s) == e - ov
NextStart(e, ov, s) == IF e - ov > s THEN e - ov ELSE e

\* pdf_text.strip() is truthy: some character is not whitespace
StripNonEmpty(t) == \E k \in 1..Len(t) : t[k] # " "

\* f"Summarize the following text in a clear and concise manner:\n{chunk}"
PromptHead == "Summarize the following text in a clear and concise manner:\n"
Prompt(chunk) == <<PromptHead>> \o chunk

\* the chunk number the messages print for loop index n: i+1
ChunkLabelZeroBased(n) == n
ChunkLabel(n) == n + 1

\* f"[Error summarizing chunk {i+1}]"
Placeholder(n) == "[Error summarizing chunk " \o ToString(ChunkLabel(n)) \o "]"

\* summaries.append(response.text)
OkAppend(s, r, c) == Append(s, r)

\* except-branch: summaries.append(f"[Error summarizing chunk {i+1}]")
FailSkip(s, n) == s
FailAppend(s, n) == Append(s, Placeholder(n))

\* (i + 1) / len(text_chunks), kept as the pair numerator, denominator
Fraction(n, total) == <<n + 1, total>>

\* ------------------------------------------------------------------- Init
Init ==
    /\ text \in Texts(MaxLen)
    /\ chunk_size \in 1..MaxChunkSize
    /\ overlap \in 0..MaxOverlap
    /\ start = 0
    /\ end = 0
    /\ chunks = <<>>
    /\ starts = <<>>
    /\ ends = <<>>
    /\ i = 0
    /\ summaries = <<>>
    /\ status = "none"
    /\ progress = <<>>
    /\ calls = <<>>
    /\ returned = <<>>
    /\ pc = "while"

\* ------------------------------------------------------------- chunk_text
\* loop test true; lines 64-67
WhileEnter ==
    /\ pc = "while"
    /\ LoopCond(start, text)
    /\ end' = ClampEnd(start, chunk_size, text)
    /\ pc' = IF end' < TextLen(text) THEN "back" ELSE "append"
    /\ UNCHANGED <<text, chunk_size, overlap, start, chunks, starts, ends>>
    /\ UNCHANGED sumVars

\* loop test false; line 78
WhileExit ==
    /\ pc = "while"
    /\ ~LoopCond(start, text)
    /\ pc' = "return"
    /\ UNCHANGED chunkVars
    /\ UNCHANGED sumVars

\* one iteration of the backward walk; lines 69-70
BackWalk ==
    /\ pc = "back"
    /\ BackCond(end, start, text)
    /\ end' = BackStep(end)
    /\ UNCHANGED <<text, chunk_size, overlap, start, chunks, starts, ends, pc>>
    /\ UNCHANGED sumVars

\* the backward walk is over; lines 71-73
BackStop ==
    /\ pc = "back"
    /\ ~BackCond(end, start, text)
    /\ IF end = start
         THEN /\ end' = ResetEnd(start, chunk_size)
              /\ pc' = IF end' < TextLen(text) THEN "fwd" ELSE "append"
         ELSE /\ end' = end
              /\ pc' = "append"
    /\ UNCHANGED <<text, chunk_size, overlap, start, chunks, starts, ends>>
    /\ UNCHANGED sumVars

\* one iteration of the forward walk; lines 74-75
FwdWalk ==
    /\ pc = "fwd"
    /\ FwdCond(end, text)
    /\ end' = end + 1
    /\ UNCHANGED <<text, chunk_size, overlap, start, chunks, starts, ends, pc>>
    /\ UNCHANGED sumVars

\* the forward walk is over
FwdStop ==
    /\ pc = "fwd"
    /\ ~FwdCond(end, text)
    /\ pc' = "append"
    /\ UNCHANGED chunkVars
    /\ UNCHANGED sumVars

\* lines 76-77
AppendChunk ==
    /\ pc = "append"
    /\ chunks' = Append(chunks, Slice(text, start, end))
    /\ starts' = Append(starts, start)
    /\ ends' = Append(ends, end)
    /\ start' = NextStart(end, overlap, start)
    /\ pc' = "while"
    /\ UNCHANGED <<text, chunk_size, overlap, end>>
    /\ UNCHANGED sumVars

ChunkNext ==
    \/ WhileEnter
    \/ WhileExit
    \/ BackWalk
    \/ BackStop
    \/ FwdWalk
    \/ FwdStop
    \/ AppendChunk

Next == ChunkNext

Spec == Init /\ [][Next]_vars

\* chunk_text is sequential code on one thread: a step that can be taken is taken.
LiveSpec == Spec /\ WF_vars(Next)

\* --------------------------------------------------------- summarize_text
\* The processing section calls chunk_text and then summarize_text only when
\* pdf_text.strip() is non-empty (line 146).
SumInit ==
    /\ Init
    /\ Len(text) <= MaxSumLen
    /\ StripNonEmpty(text)

\* lines 156-160 and 83-85: chunk_text has returned, summarize_text is entered.
\* st.progress(0) creates the bar; progress records the later updates.
SummarizeEnter ==
    /\ pc = "return"
    /\ summaries' = <<>>
    /\ i' = 0
    /\ status' = "none"
    /\ progress' = <<>>
    /\ pc' = "for"
    /\ UNCHANGED <<calls, returned>>
    /\ UNCHANGED chunkVars

\* lines 89-93: the call returns r
SummarizeOk ==
    /\ pc = "for"
    /\ i < Len(chunks)
    /\ \E r \in Responses :
         /\ calls' = Append(calls, [index |-> i, prompt |-> Prompt(chunks[i + 1])])
         /\ returned' = Append(returned, [ok |-> TRUE, text |-> r])
         /\ summaries' = OkAppend(summaries, r, chunks[i + 1])
    /\ status' = <<ChunkLabel(i), Len(chunks)>>
    /\ progress' = Append(progress, Fraction(i, Len(chunks)))
    /\ i' = i + 1
    /\ UNCHANGED pc
    /\ UNCHANGED chunkVars

\* lines 89-91, 94-96: the call raises
SummarizeFail ==
    /\ pc = "for"
    /\ i < Len(chunks)
    /\ calls' = Append(calls, [index |-> i, prompt |-> Prompt(chunks[i + 1])])
    /\ returned' = Append(returned, [ok |-> FALSE, text |-> "raised"])
    /\ summaries' = FailAppend(summaries, i)
    /\ status' = <<ChunkLabel(i), Len(chunks)>>
    /\ i' = i + 1
    /\ UNCHANGED <<progress, pc>>
    /\ UNCHANGED chunkVars

\* lines 98-100
SummarizeReturn ==
    /\ pc = "for"
    /\ i = Len(chunks)
    /\ status' = "empty"
    /\ pc' = "done"
    /\ UNCHANGED <<i, summaries, progress, calls, returned>>
    /\ UNCHANGED chunkVars

SumNext ==
    \/ ChunkNext
    \/ SummarizeEnter
    \/ SummarizeOk
    \/ SummarizeFail
    \/ SummarizeReturn

SumSpec == SumInit /\ [][SumNext]_vars

\* ================================================================= claims
RECURSIVE Concat(_)
Concat(ss) == IF ss = <<>> THEN <<>> ELSE Head(ss) \o Concat(Tail(ss))

\* chunk k without the part it shares with chunk k-1
Fresh(k) ==
    IF k = 1 THEN chunks[1]
    ELSE SubSeq(chunks[k], ends[k - 1] - starts[k] + 1, Len(chunks[k]))

\* the placeholder that names chunk number n (1-based)
ErrorText(n) == "[Error summarizing chunk " \o ToString(n) \o "]"

AllAlnum(t, a, b) == \A k \in a..b : IsAlnum(t[k])

\* C1: for every non-empty text, every chunk_size > 0 and every overlap >= 0
\* (overlap >= chunk_size included) chunk_text terminates, and what it
\* returns is a non-empty sequence of chunks.
C1_TerminatesNonEmpty ==
    /\ <>(pc = "return")
    /\ [](pc = "return" /\ Len(text) > 0 => Len(chunks) > 0)

C1_Witness ==
    /\ pc = "return"
    /\ Len(text) = MaxLen
    /\ overlap >= chunk_size
    /\ Len(chunks) >= 2

\* C2: summarize_text calls model.generate_content exactly once per chunk, in
\* index order 0..N-1, and returns exactly N results; entry j is the entry of
\* chunk j: the text the call returned, or the placeholder of that chunk when
\* the call raised, exactly one of the two.
C2_OneEntryPerChunk ==
    pc \in {"for", "done"} =>
        /\ i <= Len(chunks)
        /\ pc = "done" => i = Len(chunks)
        /\ Len(calls) = i
        /\ Len(returned) = i
        /\ Len(summaries) = i
        /\ \A j \in 1..i :
              /\ calls[j].index = j - 1
              /\ calls[j].prompt = Prompt(chunks[j])
              /\ summaries[j] = IF returned[j].ok THEN returned[j].text
                                                  ELSE ErrorText(j)

C2_Witness ==
    /\ pc = "done"
    /\ Len(chunks) >= 3
    /\ \E j, k \in 1..Len(returned) : returned[j].ok /\ ~returned[k].ok

\* C3: when the call raises for chunk index k only, the run is not aborted:
\* every chunk after k is still processed, entry k of the result is
\* "[Error summarizing chunk k+1]" and every other entry is what the call
\* returned for its chunk.
C3_IsolatedFailure ==
    pc = "done" =>
        \A k \in 1..Len(returned) :
            (~returned[k].ok /\ \A j \in 1..Len(returned) : j # k => returned[j].ok)
            => /\ Len(returned) = Len(chunks)
               /\ Len(summaries) = Len(chunks)
               /\ \A j \in (k + 1)..Len(chunks) : calls[j].index = j - 1
               /\ summaries[k] = ErrorText(k)
               /\ \A j \in 1..Len(chunks) : j # k => summaries[j] = returned[j].text

C3_Witness ==
    /\ pc = "done"
    /\ Len(chunks) >= 3
    /\ returned[1].ok /\ ~returned[2].ok /\ returned[3].ok
    /\ returned[1].text # returned[3].text
    /\ \A j \in 1..Len(returned) : j # 2 => returned[j].ok

\* C4: after each chunk, whether its summarization succeeded or failed, the
\* fraction (i+1)/N is emitted before the next chunk is started, so a run
\* over N chunks emits exactly 1/N, 2/N, ..., N/N in that order.
C4_ProgressAfterEveryChunk ==
    pc \in {"for", "done"} =>
        progress = [k \in 1..i |-> <<k, Len(chunks)>>]

\* C5: every chunk chunk_text produces has length > 0, also the chunk of an
\* iteration whose backward walk collapsed end to start.
C5_ChunksNonEmpty ==
    \A k \in 1..Len(chunks) : Len(chunks[k]) > 0

C5_Witness ==
    /\ pc = "return"
    /\ \E k \in 1..Len(chunks) : Len(chunks[k]) > chunk_size

\* C6: the starting offsets of successive chunks are strictly increasing:
\* after each iteration the next start is greater than the start of the
\* chunk just appended, also when overlap >= chunk_size.
C6_StartsIncrease ==
    /\ \A k \in 1..(Len(starts) - 1) : starts[k] < starts[k + 1]
    /\ (pc = "while" /\ Len(starts) > 0) => start > starts[Len(starts)]

C6_Witness ==
    /\ pc = "while"
    /\ overlap >= chunk_size
    /\ Len(starts) >= 2
    /\ start = ends[Len(ends)] - overlap

\* C7: a chunk is no longer than chunk_size, except in the boundary
\* extension: then the chunk_size characters from its start are all
\* alphanumeric, text continues past start + chunk_size, every character of
\* the chunk but the last is alphanumeric, and the chunk ends just after a
\* non-alphanumeric character or at the end of the text.
C7_LengthBound ==
    \A k \in 1..Len(chunks) :
        \/ Len(chunks[k]) <= chunk_size
        \/ /\ starts[k] + chunk_size < Len(text)
           /\ AllAlnum(text, starts[k] + 1, starts[k] + chunk_size)
           /\ AllAlnum(chunks[k], 1, Len(chunks[k]) - 1)
           /\ \/ ends[k] = Len(text)
              \/ ~IsAlnum(chunks[k][Len(chunks[k])])

C7_Witness ==
    \E k \in 1..Len(chunks) :
        /\ Len(chunks[k]) > chunk_size
        /\ ends[k] < Len(text)

\* C8: the chunks cover the text with no gap: the first chunk starts at 0,
\* the last ends at len(text), every later chunk starts at or before the end
\* of its predecessor, and the chunks with the part each shares with its
\* predecessor removed concatenate to the text; with overlap = 0 the chunks
\* as they are concatenate to the text.
C8_Coverage ==
    pc = "return" =>
        /\ Len(chunks) > 0 =>
              /\ starts[1] = 0
              /\ ends[Len(ends)] = Len(text)
        /\ \A k \in 1..(Len(chunks) - 1) : starts[k + 1] <= ends[k]
        /\ Concat([k \in 1..Len(chunks) |-> Fresh(k)]) = text
        /\ overlap = 0 => Concat(chunks) = text

C8_Witness ==
    /\ pc = "return"
    /\ Len(chunks) >= 3
    /\ \E k \in 1..(Len(chunks) - 1) : starts[k + 1] < ends[k]
    /\ \E k \in 1..(Len(chunks) - 1) : starts[k + 1] = ends[k]

\* C9: a chunk that ends before the end of the text ends with a
\* non-alphanumeric character; only a chunk that ends at len(text) may end
\* with an alphanumeric one.
C9_EndsOnBoundary ==
    \A k \in 1..Len(chunks) :
        ends[k] < Len(text) =>
            /\ Len(chunks[k]) > 0
            /\ ~IsAlnum(chunks[k][Len(chunks[k])])

C9_Witness ==
    \E k \in 1..Len(chunks) :
        /\ ends[k] < Len(text)
        /\ Len(chunks[k]) < chunk_size

\* C10: the end offsets of successive chunks are strictly increasing: every
\* chunk after the first extends beyond the end of its predecessor.
C10_EndsIncrease ==
    \A k \in 1..(Len(ends) - 1) : ends[k] < ends[k + 1]

=============================================================================
